---- MODULE Spec2Model ----
(***************************************************************************)
(* Model of the forest core of sieve-selector (src/src/forest.rs): a       *)
(* multiway forest encoded as a size-augmented left-child/right-sibling    *)
(* binary tree, edited through a zipper.  Every public operation of Node   *)
(* is one action; the pure functions of the source are operators that      *)
(* follow the source's loops step by step.                                 *)
(***************************************************************************)
EXTENDS Integers, Sequences, FiniteSets, TLC

\* Largest forest the model builds (prepend stops there) and largest index
\* handed to an operation.
MaxSize == 4

\* The label texts the model hands to set_label and prepend.
Labels == {"a", "b"}

\* Largest heap a session builds (Submit of an added item stops there).
MaxHeap == 11

\* The value of `ret` after an operation that returns no index.
NoIndex == -1

VARIABLES
    forest,   \* the forest the caller holds (the value the last operation returned)
    before,   \* the forest that was passed to the last operation
    op,       \* the name of the last operation
    index,    \* the index argument of the last operation (NoIndex for prepend)
    text,     \* the label argument of the last operation ("" when it has none)
    ret,      \* the index the last operation returned (NoIndex when it returns none)
    zipper,   \* the zipper focus_node built inside the last operation
    items,    \* the items the last drained iter() yielded (<<>> after any other step)
    mode      \* the Mode of the session's Model

vars == <<forest, before, op, index, text, ret, zipper, items, mode>>

----------------------------------------------------------------------------
(* enum Node *)

Empty == [tag |-> "Empty"]

size(node) == IF node = Empty THEN 0 ELSE node.size

\* mutant: the cached size forgets the sibling chain
Node_new_NoSiblingSize(label, child, sibling) ==
    [label |-> label, child |-> child, sibling |-> sibling,
     size |-> 1 + size(child)]

Node_new(label, child, sibling) ==
    [label |-> label, child |-> child, sibling |-> sibling,
     size |-> 1 + size(child) + size(sibling)]

(* enum ReturnNode *)

ReturnEmpty == [kind |-> "Empty"]

\* mutant: the step into a child forgets the node's pending sibling chain
new_parent_DropsSibling(label, prev, sibling) ==
    [kind |-> "Parent", label |-> label, prev |-> prev, sibling |-> Empty]

new_parent(label, prev, sibling) ==
    [kind |-> "Parent", label |-> label, prev |-> prev, sibling |-> sibling]

new_sibling(label, prev, child) ==
    [kind |-> "Sibling", label |-> label, prev |-> prev, child |-> child]

(* struct ForestZipper *)

ForestZipper(focus, prev) == [focus |-> focus, prev |-> prev]

(* enum Tree *)

TreeEmpty == [tree |-> "Empty"]

TreeRoot(label, child) == [tree |-> "Root", label |-> label, child |-> child]

----------------------------------------------------------------------------
(* ForestZipper::restore, ForestZipper::restore_with_index *)

RECURSIVE restore_loop(_, _)
restore_loop(focus, prev) ==
    IF prev.kind = "Parent"
    THEN restore_loop(Node_new(prev.label, focus, prev.sibling), prev.prev)
    ELSE IF prev.kind = "Sibling"
    THEN restore_loop(Node_new(prev.label, prev.child, focus), prev.prev)
    ELSE focus

restore(z) == restore_loop(z.focus, z.prev)

\* mutant: the climb past a previous sibling does not count the sibling itself
RECURSIVE restore_with_index_loop_OffByOne(_, _, _)
restore_with_index_loop_OffByOne(focus, prev, i) ==
    IF prev.kind = "Parent"
    THEN restore_with_index_loop_OffByOne(
             Node_new(prev.label, focus, prev.sibling), prev.prev, i + 1)
    ELSE IF prev.kind = "Sibling"
    THEN restore_with_index_loop_OffByOne(
             Node_new(prev.label, prev.child, focus), prev.prev,
             i + size(prev.child))
    ELSE <<focus, i>>

\* mutant: the climb past a previous sibling does not count its child subtree
RECURSIVE restore_with_index_loop_NoChildSize(_, _, _)
restore_with_index_loop_NoChildSize(focus, prev, i) ==
    IF prev.kind = "Parent"
    THEN restore_with_index_loop_NoChildSize(
             Node_new(prev.label, focus, prev.sibling), prev.prev, i + 1)
    ELSE IF prev.kind = "Sibling"
    THEN restore_with_index_loop_NoChildSize(
             Node_new(prev.label, prev.child, focus), prev.prev, i + 1)
    ELSE <<focus, i>>

RECURSIVE restore_with_index_loop(_, _, _)
restore_with_index_loop(focus, prev, i) ==
    IF prev.kind = "Parent"
    THEN restore_with_index_loop(Node_new(prev.label, focus, prev.sibling),
                                 prev.prev, i + 1)
    ELSE IF prev.kind = "Sibling"
    THEN restore_with_index_loop(Node_new(prev.label, prev.child, focus),
                                 prev.prev, i + 1 + size(prev.child))
    ELSE <<focus, i>>

restore_with_index(z) == restore_with_index_loop(z.focus, z.prev, 0)

(* Node::focus_node *)

RECURSIVE focus_node_loop(_, _, _)
focus_node_loop(i, focus, prev) ==
    IF i > 0 /\ focus # Empty
    THEN IF i <= size(focus.child)
         THEN focus_node_loop(i - 1, focus.child,
                              new_parent(focus.label, prev, focus.sibling))
         ELSE focus_node_loop(i - (1 + size(focus.child)), focus.sibling,
                              new_sibling(focus.label, prev, focus.child))
    ELSE ForestZipper(focus, prev)

focus_node(self, i) == focus_node_loop(i, self, ReturnEmpty)

(* Node::find_label; "panic" stands for panic!("Invalid index") *)

RECURSIVE find_label(_, _)
find_label(node, i) ==
    IF i > 0 /\ node # Empty
    THEN IF i <= size(node.child)
         THEN find_label(node.child, i - 1)
         ELSE find_label(node.sibling, i - (1 + size(node.child)))
    ELSE IF node # Empty THEN node.label ELSE "panic"

(* concat *)

RECURSIVE concat_loop(_, _)
concat_loop(focus, prev) ==
    IF focus # Empty
    THEN concat_loop(focus.sibling, new_sibling(focus.label, prev, focus.child))
    ELSE prev

\* mutant: the two forests are joined in the wrong order
concat_RightFirst(left_root, right_root) ==
    IF left_root = Empty
    THEN right_root
    ELSE restore(ForestZipper(left_root, concat_loop(right_root, ReturnEmpty)))

concat(left_root, right_root) ==
    IF right_root = Empty
    THEN left_root
    ELSE restore(ForestZipper(right_root, concat_loop(left_root, ReturnEmpty)))

----------------------------------------------------------------------------
(* ForestZipper::move_forward, move_backward *)

\* mutant: the two nodes exchange labels but keep each other's children
zipper_move_forward_SwapsLabelsOnly(z) ==
    IF z.focus # Empty
    THEN IF z.focus.sibling # Empty
         THEN ForestZipper(
                  Node_new(z.focus.label, z.focus.sibling.child,
                           z.focus.sibling.sibling),
                  new_sibling(z.focus.sibling.label, z.prev, z.focus.child))
         ELSE ForestZipper(
                  Node_new(z.focus.label, z.focus.child, z.focus.sibling),
                  z.prev)
    ELSE z

zipper_move_forward(z) ==
    IF z.focus # Empty
    THEN IF z.focus.sibling # Empty
         THEN ForestZipper(
                  Node_new(z.focus.label, z.focus.child, z.focus.sibling.sibling),
                  new_sibling(z.focus.sibling.label, z.prev, z.focus.sibling.child))
         ELSE ForestZipper(
                  Node_new(z.focus.label, z.focus.child, z.focus.sibling),
                  z.prev)
    ELSE z

\* mutant: the previous sibling is re-attached without the siblings that
\* followed the focus
zipper_move_backward_DropsRest(z) ==
    IF z.prev.kind = "Sibling"
    THEN IF z.focus # Empty
         THEN ForestZipper(
                  Node_new(z.focus.label, z.focus.child,
                           Node_new(z.prev.label, z.prev.child, Empty)),
                  z.prev.prev)
         ELSE ForestZipper(z.focus,
                           new_sibling(z.prev.label, z.prev.prev, z.prev.child))
    ELSE z

\* mutant: with an empty focus the previous sibling is not put back on the path
zipper_move_backward_EmptyFocusDropsPrev(z) ==
    IF z.prev.kind = "Sibling"
    THEN IF z.focus # Empty
         THEN ForestZipper(
                  Node_new(z.focus.label, z.focus.child,
                           Node_new(z.prev.label, z.prev.child, z.focus.sibling)),
                  z.prev.prev)
         ELSE ForestZipper(z.focus, z.prev.prev)
    ELSE z

zipper_move_backward(z) ==
    IF z.prev.kind = "Sibling"
    THEN IF z.focus # Empty
         THEN ForestZipper(
                  Node_new(z.focus.label, z.focus.child,
                           Node_new(z.prev.label, z.prev.child, z.focus.sibling)),
                  z.prev.prev)
         ELSE ForestZipper(z.focus,
                           new_sibling(z.prev.label, z.prev.prev, z.prev.child))
    ELSE z

(* ForestZipper::extract_tree: the pair (zipper, tree) *)

\* mutant: the siblings that followed the extracted node are not left behind
extract_tree_DropsSiblings(z) ==
    IF z.focus # Empty
    THEN <<ForestZipper(Empty, z.prev),
           TreeRoot(z.focus.label, z.focus.child)>>
    ELSE <<z, TreeEmpty>>

extract_tree(z) ==
    IF z.focus # Empty
    THEN <<ForestZipper(z.focus.sibling, z.prev),
           TreeRoot(z.focus.label, z.focus.child)>>
    ELSE <<z, TreeEmpty>>

(* ForestZipper::promote *)

\* mutant: the Parent step is missing, the subtree is put back as the first
\* child of its parent
RECURSIVE promote_loop_StaysUnderParent(_, _, _, _)
promote_loop_StaysUnderParent(root_label, root_child, focus, prev) ==
    IF prev.kind = "Sibling"
    THEN promote_loop_StaysUnderParent(root_label, root_child,
                      Node_new(prev.label, prev.child, focus), prev.prev)
    ELSE ForestZipper(Node_new(root_label, root_child, focus), prev)

\* mutant: the preceding siblings are not climbed past, the subtree is put
\* back where it was unless it is a first child
promote_loop_NoClimb(root_label, root_child, focus, prev) ==
    IF prev.kind = "Parent"
    THEN ForestZipper(Node_new(root_label, root_child, prev.sibling),
                      new_sibling(prev.label, prev.prev, focus))
    ELSE ForestZipper(Node_new(root_label, root_child, focus), prev)

RECURSIVE promote_loop(_, _, _, _)
promote_loop(root_label, root_child, focus, prev) ==
    IF prev.kind = "Sibling"
    THEN promote_loop(root_label, root_child,
                      Node_new(prev.label, prev.child, focus), prev.prev)
    ELSE IF prev.kind = "Parent"
    THEN ForestZipper(Node_new(root_label, root_child, prev.sibling),
                      new_sibling(prev.label, prev.prev, focus))
    ELSE ForestZipper(Node_new(root_label, root_child, focus), prev)

zipper_promote(z) ==
    LET e == extract_tree(z)
    IN  IF e[2] = TreeEmpty
        THEN e[1]
        ELSE promote_loop(e[2].label, e[2].child, e[1].focus, e[1].prev)

(* ForestZipper::demote *)

RECURSIVE demote_loop(_, _)
demote_loop(focus, prev) ==
    IF focus # Empty
    THEN demote_loop(focus.sibling, new_sibling(focus.label, prev, focus.child))
    ELSE prev

\* mutant: the subtree becomes the first child of its previous sibling
zipper_demote_FirstChild(z) ==
    LET e == extract_tree(z)
    IN  IF e[2] = TreeEmpty
        THEN e[1]
        ELSE IF e[1].prev.kind = "Sibling"
        THEN ForestZipper(
                 Node_new(e[2].label, e[2].child, e[1].prev.child),
                 new_parent(e[1].prev.label, e[1].prev.prev, e[1].focus))
        ELSE ForestZipper(Node_new(e[2].label, e[2].child, e[1].focus),
                          e[1].prev)

\* mutant: without a previous sibling the extraction is not reverted
zipper_demote_NoRevert(z) ==
    LET e == extract_tree(z)
    IN  IF e[2] = TreeEmpty
        THEN e[1]
        ELSE IF e[1].prev.kind = "Sibling"
        THEN ForestZipper(
                 Node_new(e[2].label, e[2].child, Empty),
                 demote_loop(e[1].prev.child,
                             new_parent(e[1].prev.label, e[1].prev.prev,
                                        e[1].focus)))
        ELSE e[1]

zipper_demote(z) ==
    LET e == extract_tree(z)
    IN  IF e[2] = TreeEmpty
        THEN e[1]
        ELSE IF e[1].prev.kind = "Sibling"
        THEN ForestZipper(
                 Node_new(e[2].label, e[2].child, Empty),
                 demote_loop(e[1].prev.child,
                             new_parent(e[1].prev.label, e[1].prev.prev,
                                        e[1].focus)))
        ELSE ForestZipper(Node_new(e[2].label, e[2].child, e[1].focus),
                          e[1].prev)

----------------------------------------------------------------------------
(* The public operations of Node *)

\* mutant: the relabelled node is rebuilt without its children
set_label_DropsChild(self, i, label) ==
    LET z == focus_node(self, i)
        focus == IF z.focus # Empty
                 THEN Node_new(label, Empty, z.focus.sibling)
                 ELSE Empty
    IN  restore(ForestZipper(focus, z.prev))

set_label(self, i, label) ==
    LET z == focus_node(self, i)
        focus == IF z.focus # Empty
                 THEN [label |-> label, child |-> z.focus.child,
                       sibling |-> z.focus.sibling, size |-> z.focus.size]
                 ELSE Empty
    IN  restore(ForestZipper(focus, z.prev))

prepend(self, label) == Node_new(label, Empty, self)

move_forward(self, i) == restore_with_index(zipper_move_forward(focus_node(self, i)))

move_backward(self, i) == restore_with_index(zipper_move_backward(focus_node(self, i)))

promote(self, i) == restore_with_index(zipper_promote(focus_node(self, i)))

demote(self, i) == restore_with_index(zipper_demote(focus_node(self, i)))

delete(self, i) ==
    LET z == focus_node(self, i)
        new_focus == IF z.focus # Empty
                     THEN concat(z.focus.child, z.focus.sibling)
                     ELSE Empty
    IN  restore(ForestZipper(new_focus, z.prev))

----------------------------------------------------------------------------
(* Node::to_node, Node::iter, PreOrderIter::next.  An Option is a sequence *)
(* of length 0 (None) or 1 (Some); the stack is a sequence, top last.      *)

to_node(node, node_type) ==
    IF node = Empty
    THEN <<>>
    ELSE <<[label |-> node.label, child |-> node.child, sibling |-> node.sibling,
            pos |-> [node_type |-> node_type,
                     is_last |-> (node.sibling = Empty)]]>>

iter(self) == to_node(self, "Root")

\* mutant: the child is pushed before the sibling, so the sibling is popped first
PreOrderIter_next_SiblingFirst(stack) ==
    IF stack = <<>>
    THEN <<>>
    ELSE LET top == stack[Len(stack)]
             sibling_type == IF top.pos.node_type = "Root" THEN "Root"
                                                           ELSE "Sibling"
         IN  <<[item |-> [label |-> top.label, pos |-> top.pos],
                stack |-> SubSeq(stack, 1, Len(stack) - 1)
                          \o to_node(top.child, "Child")
                          \o to_node(top.sibling, sibling_type)]>>

\* mutant: the sibling of a root is tagged Sibling instead of Root
PreOrderIter_next_RootSiblingTag(stack) ==
    IF stack = <<>>
    THEN <<>>
    ELSE LET top == stack[Len(stack)]
         IN  <<[item |-> [label |-> top.label, pos |-> top.pos],
                stack |-> SubSeq(stack, 1, Len(stack) - 1)
                          \o to_node(top.sibling, "Sibling")
                          \o to_node(top.child, "Child")]>>

\* next: None, or Some of the yielded item with the stack left behind.
PreOrderIter_next(stack) ==
    IF stack = <<>>
    THEN <<>>
    ELSE LET top == stack[Len(stack)]
             sibling_type == IF top.pos.node_type = "Root" THEN "Root"
                                                           ELSE "Sibling"
         IN  <<[item |-> [label |-> top.label, pos |-> top.pos],
                stack |-> SubSeq(stack, 1, Len(stack) - 1)
                          \o to_node(top.sibling, sibling_type)
                          \o to_node(top.child, "Child")]>>

\* The consumer in view.rs calls next until it returns None.
RECURSIVE drain(_)
drain(stack) ==
    LET r == PreOrderIter_next(stack)
    IN  IF r = <<>> THEN <<>> ELSE <<r[1].item>> \o drain(r[1].stack)

(* enum Mode, struct InputState, enum InputAction *)

Mode_Normal == [kind |-> "Normal"]

Mode_Select(i) == [kind |-> "Select", index |-> i]

Mode_Selected(i) == [kind |-> "Selected", index |-> i]

Mode_Input(input_state) == [kind |-> "Input", state |-> input_state]

InputAction_Add == [kind |-> "Add"]

InputAction_Edit(i) == [kind |-> "Edit", index |-> i]

InputState(input, action) == [input |-> input, action |-> action]

\* model.rs is not part of the sources; the InputState methods are what
\* their callers in update.rs and view.rs rely on.  An input is "" or one of
\* the label texts.
InputState_new_add == InputState("", InputAction_Add)

InputState_new_edit(label, i) == InputState(label, InputAction_Edit(i))

InputState_append(input_state, c) ==
    IF input_state.input = "" THEN InputState(c, input_state.action)
                              ELSE input_state

InputState_pop(input_state) == InputState("", input_state.action)

InputState_is_valid(input_state) == input_state.input # ""

\* SessionState (model.rs): heap is the forest; add, edit and delete are the
\* core's prepend, set_label and delete; label_at is find_label.
SessionState_add(heap, label) == prepend(heap, label)

SessionState_edit(heap, i, label) == set_label(heap, i, label)

SessionState_delete(heap, i) == delete(heap, i)

label_at(heap, i) == find_label(heap, i)

----------------------------------------------------------------------------
(* update.rs: append_index.  A char is a one-character string.             *)

DigitChars == <<"0", "1", "2", "3", "4", "5", "6", "7", "8", "9">>

is_ascii_digit(c) == \E d \in 1..10 : DigitChars[d] = c

\* (c as usize) - ('0' as usize)
digit_value(c) == (CHOOSE d \in 1..10 : DigitChars[d] = c) - 1

\* format!("{index}"): the decimal digits, most significant first.
RECURSIVE to_string(_)
to_string(n) ==
    IF n < 10 THEN <<DigitChars[n + 1]>>
    ELSE to_string(n \div 10) \o <<DigitChars[(n % 10) + 1]>>

\* str::parse::<usize>: Ok(value) as <<value>>.  Leading zeros are accepted.
\* The strings append_index builds here have at most three digits, so the
\* Err of an overflowing parse does not arise.
RECURSIVE parse_digits(_, _)
parse_digits(str, acc) ==
    IF str = <<>> THEN acc
    ELSE parse_digits(Tail(str), 10 * acc + digit_value(Head(str)))

parse_usize(str) == <<parse_digits(str, 0)>>

\* mutant: the parsed index is accepted when it equals the heap size
append_index_OffByOne(i, c, heap_size) ==
    IF ~is_ascii_digit(c)
    THEN i
    ELSE LET idx_str == to_string(i) \o <<c>>
             parsed == parse_usize(idx_str)
             c_val == digit_value(c)
         IN  IF parsed # <<>> /\ parsed[1] <= heap_size
             THEN parsed[1]
             ELSE IF c_val < heap_size THEN c_val ELSE i

append_index(i, c, heap_size) ==
    IF ~is_ascii_digit(c)
    THEN i
    ELSE LET idx_str == to_string(i) \o <<c>>
             parsed == parse_usize(idx_str)
             c_val == digit_value(c)
         IN  IF parsed # <<>> /\ parsed[1] < heap_size
             THEN parsed[1]
             ELSE IF c_val < heap_size THEN c_val ELSE i

----------------------------------------------------------------------------
(* The state machine: a caller holding one forest value and replacing it by *)
(* the result of each call.                                                 *)

Indices == 0..MaxSize

Init ==
    /\ forest = Empty
    /\ before = Empty
    /\ op = "init"
    /\ index = NoIndex
    /\ text = ""
    /\ ret = NoIndex
    /\ zipper = ForestZipper(Empty, ReturnEmpty)
    /\ items = <<>>
    /\ mode = Mode_Normal

\* An operation returning only a forest.
Returned(name, i, label, result) ==
    /\ before' = forest
    /\ op' = name
    /\ index' = i
    /\ text' = label
    /\ forest' = result
    /\ ret' = NoIndex
    /\ zipper' = IF i = NoIndex THEN ForestZipper(Empty, ReturnEmpty)
                                ELSE focus_node(forest, i)
    /\ items' = <<>>

\* An operation returning the pair (forest, index).
ReturnedPair(name, i, result) ==
    /\ before' = forest
    /\ op' = name
    /\ index' = i
    /\ text' = ""
    /\ forest' = result[1]
    /\ ret' = result[2]
    /\ zipper' = focus_node(forest, i)
    /\ items' = <<>>

SetLabel == \E i \in Indices, t \in Labels :
    /\ Returned("set_label", i, t, set_label(forest, i, t))
    /\ UNCHANGED mode

Prepend == \E t \in Labels :
    /\ size(forest) < MaxSize
    /\ Returned("prepend", NoIndex, t, prepend(forest, t))
    /\ UNCHANGED mode

MoveForward == \E i \in Indices :
    /\ ReturnedPair("move_forward", i, move_forward(forest, i))
    /\ UNCHANGED mode

MoveBackward == \E i \in Indices :
    /\ ReturnedPair("move_backward", i, move_backward(forest, i))
    /\ UNCHANGED mode

Promote == \E i \in Indices :
    /\ ReturnedPair("promote", i, promote(forest, i))
    /\ UNCHANGED mode

Demote == \E i \in Indices :
    /\ ReturnedPair("demote", i, demote(forest, i))
    /\ UNCHANGED mode

Delete == \E i \in Indices :
    /\ Returned("delete", i, "", delete(forest, i))
    /\ UNCHANGED mode

\* tests::focus_and_restore_forest: focus a node, restore without an edit.
FocusRestore == \E i \in Indices :
    /\ Returned("focus_restore", i, "", restore(focus_node(forest, i)))
    /\ UNCHANGED mode

\* view.rs: drawing the forest drains forest.iter().
Iter ==
    /\ before' = forest
    /\ op' = "iter"
    /\ index' = NoIndex
    /\ text' = ""
    /\ ret' = NoIndex
    /\ zipper' = ForestZipper(Empty, ReturnEmpty)
    /\ items' = drain(iter(forest))
    /\ UNCHANGED <<forest, mode>>

Next ==
    \/ SetLabel
    \/ Prepend
    \/ MoveForward
    \/ MoveBackward
    \/ Promote
    \/ Demote
    \/ Delete
    \/ FocusRestore
    \/ Iter

Spec == Init /\ [][Next]_vars

----------------------------------------------------------------------------
(* The multiway reading of the encoding, used to state the properties:     *)
(* counted sizes, pre-order numbering, sibling chains as lists of trees.   *)

RECURSIVE NodeCount(_)
NodeCount(node) ==
    IF node = Empty THEN 0
    ELSE 1 + NodeCount(node.child) + NodeCount(node.sibling)

\* The nodes in pre-order: self, then the child subtree, then the sibling chain.
RECURSIVE PreOrder(_)
PreOrder(node) ==
    IF node = Empty THEN <<>>
    ELSE <<node>> \o PreOrder(node.child) \o PreOrder(node.sibling)

\* The node of pre-order index i, with its child and its following siblings.
SubtreeAt(F, i) == PreOrder(F)[i + 1]

ValidIndex(F, i) == i >= 0 /\ i < NodeCount(F)

RECURSIVE SizeInvariant(_)
SizeInvariant(node) ==
    \/ node = Empty
    \/ /\ node.size = 1 + size(node.child) + size(node.sibling)
       /\ SizeInvariant(node.child)
       /\ SizeInvariant(node.sibling)

\* The forest without its labels: every child/sibling link and every size.
RECURSIVE ShapeOf(_)
ShapeOf(node) ==
    IF node = Empty THEN Empty
    ELSE [child |-> ShapeOf(node.child), sibling |-> ShapeOf(node.sibling),
          size |-> node.size]

IndexedOps == {"move_forward", "move_backward", "promote", "demote"}

----------------------------------------------------------------------------
\* C1: after any sequence of set_label, prepend, move_forward, move_backward,
\* promote, demote and delete calls starting from the empty forest, every
\* node of the returned forest has size = 1 + size(child) + size(sibling),
\* with size(Empty) = 0.
C1_SizeInvariant == SizeInvariant(forest)

C1_Witness ==
    /\ op = "set_label"
    /\ ValidIndex(before, index)
    /\ index > 0
    /\ forest.child # Empty
    /\ forest.sibling # Empty

\* C2: focusing a valid index and restoring without an edit returns the
\* forest it started from, and the zipper's focus is the node of that
\* pre-order index together with its child and its following siblings.
C2_FocusRestore ==
    (op = "focus_restore" /\ ValidIndex(before, index))
        => /\ forest = before
           /\ zipper.focus = SubtreeAt(before, index)

C2_Witness ==
    /\ op = "focus_restore"
    /\ ValidIndex(before, index)
    /\ zipper.prev.kind = "Parent"
    /\ zipper.prev.sibling # Empty
    /\ zipper.prev.prev.kind = "Sibling"

\* C3: set_label at a valid index i with text t makes find_label(i) = t,
\* leaves find_label(j) unchanged for every other index j, and leaves every
\* child/sibling link and every size unchanged.
C3_LabelRoundTrip ==
    (op = "set_label" /\ ValidIndex(before, index))
        => /\ find_label(forest, index) = text
           /\ \A j \in 0..(NodeCount(before) - 1) :
                  j # index => find_label(forest, j) = find_label(before, j)
           /\ ShapeOf(forest) = ShapeOf(before)

C3_Witness ==
    /\ op = "set_label"
    /\ ValidIndex(before, index)
    /\ index > 0
    /\ NodeCount(before) >= 3
    /\ SubtreeAt(before, index).child # Empty
    /\ find_label(before, index) # text

----------------------------------------------------------------------------
(* Sibling chains as lists of trees <<[label, child], ...>>.               *)

RECURSIVE ChainList(_)
ChainList(node) ==
    IF node = Empty THEN <<>>
    ELSE <<[label |-> node.label, child |-> node.child]>> \o ChainList(node.sibling)

\* A node whose size is counted, not taken from the cached fields.
MkNode(label, child, sibling) ==
    [label |-> label, child |-> child, sibling |-> sibling,
     size |-> 1 + NodeCount(child) + NodeCount(sibling)]

RECURSIVE FromList(_)
FromList(L) ==
    IF L = <<>> THEN Empty
    ELSE MkNode(L[1].label, L[1].child, FromList(Tail(L)))

\* F with the subtree of pre-order index i (the node, its child and its
\* following siblings) replaced by s; everything else keeps its place.
RECURSIVE ReplaceAt(_, _, _)
ReplaceAt(node, i, s) ==
    IF i = 0 THEN s
    ELSE IF i <= NodeCount(node.child)
    THEN MkNode(node.label, ReplaceAt(node.child, i - 1, s), node.sibling)
    ELSE MkNode(node.label, node.child,
                ReplaceAt(node.sibling, i - 1 - NodeCount(node.child), s))

SetMax(S) == CHOOSE x \in S : \A y \in S : y <= x

\* The pre-order index of the parent of node i: the deepest node whose child
\* subtree contains i; NoIndex for a root.
ParentIndex(F, i) ==
    LET anc == {j \in 0..(i - 1) : i <= j + NodeCount(SubtreeAt(F, j).child)}
    IN  IF anc = {} THEN NoIndex ELSE SetMax(anc)

HasParent(F, i) == ParentIndex(F, i) # NoIndex

\* The index of the first node of i's level (the first root, or the first
\* child of i's parent).
LevelStart(F, i) == IF HasParent(F, i) THEN ParentIndex(F, i) + 1 ELSE 0

\* The position (from 1) in the chain starting at node of the node `off`
\* pre-order steps after the chain's head.
RECURSIVE ChainPos(_, _)
ChainPos(node, off) ==
    IF off = 0 THEN 1
    ELSE 1 + ChainPos(node.sibling, off - 1 - NodeCount(node.child))

\* The trees of i's level, and i's position among them.
Level(F, i) == ChainList(SubtreeAt(F, LevelStart(F, i)))

PosInLevel(F, i) == ChainPos(SubtreeAt(F, LevelStart(F, i)), i - LevelStart(F, i))

HasNextSibling(F, i) == PosInLevel(F, i) < Len(Level(F, i))

HasPrevSibling(F, i) == PosInLevel(F, i) > 1

Remove(L, k) == SubSeq(L, 1, k - 1) \o SubSeq(L, k + 1, Len(L))

SwapWithNext(L, k) == [L EXCEPT ![k] = L[k + 1], ![k + 1] = L[k]]

----------------------------------------------------------------------------
\* C4: move_forward on a node A that has a next sibling B exchanges the two
\* in their sibling chain: B with its children stands where A stood, A with
\* its children follows B, the siblings that followed B follow A, and every
\* node outside the two subtrees keeps its position.
C4_MoveForwardSwaps ==
    (op = "move_forward" /\ ValidIndex(before, index)
                         /\ HasNextSibling(before, index))
        => forest = ReplaceAt(before, LevelStart(before, index),
                        FromList(SwapWithNext(Level(before, index),
                                              PosInLevel(before, index))))

C4_Witness ==
    /\ op = "move_forward"
    /\ ValidIndex(before, index)
    /\ HasParent(before, index)
    /\ PosInLevel(before, index) + 1 < Len(Level(before, index))
    /\ forest # before

\* C5: when the node at a valid index i has a next sibling and
\* move_forward(F, i) returned (F1, j), move_backward(F1, j) returns F and i.
C5_SwapInvolution ==
    (op = "move_forward" /\ ValidIndex(before, index)
                         /\ HasNextSibling(before, index))
        => move_backward(forest, ret) = <<before, index>>

C5_Witness ==
    /\ op = "move_forward"
    /\ ValidIndex(before, index)
    /\ HasNextSibling(before, index)
    /\ SubtreeAt(before, index).child # Empty
    /\ ret > index + 1
    /\ forest # before

\* C6: move_forward, move_backward, promote and demote at a valid index i
\* return (F', j) with j < F'.size(), and the node at pre-order index j of
\* F' has the label and the child subtree of the node at index i of F.
C6_ReturnedIndexTracksNode ==
    (op \in IndexedOps /\ ValidIndex(before, index))
        => /\ ret >= 0
           /\ ret < size(forest)
           /\ SubtreeAt(forest, ret).label = SubtreeAt(before, index).label
           /\ SubtreeAt(forest, ret).child = SubtreeAt(before, index).child

C6_Witness ==
    /\ op = "promote"
    /\ ValidIndex(before, index)
    /\ ret # index
    /\ SubtreeAt(before, index).child # Empty
    /\ SubtreeAt(forest, ret).label # SubtreeAt(forest, index).label

----------------------------------------------------------------------------
\* The forest 0, 1[2, 3], 4 of tests::focus_and_restore_forest.
Leaf(label, sibling) == MkNode(label, Empty, sibling)

ForestA ==
    Leaf("0", MkNode("1", Leaf("2", Leaf("3", Empty)), Leaf("4", Empty)))

\* The forest 0, 1[3], 2, 4.
ForestAPromoted2 ==
    Leaf("0", MkNode("1", Leaf("3", Empty), Leaf("2", Leaf("4", Empty))))

\* C7: promote on a node X that has a parent P removes X, with its own
\* children, from P's child list and inserts it as P's immediate next
\* sibling, ahead of P's former next sibling; X's former preceding and
\* following siblings remain children of P in their order.  On the forest
\* 0, 1[2, 3], 4 promote on "2" gives 0, 1[3], 2, 4.
C7_PromoteUnderParent ==
    /\ (op = "promote" /\ ValidIndex(before, index) /\ HasParent(before, index))
        => LET p == ParentIndex(before, index)
               P == SubtreeAt(before, p)
               kids == ChainList(P.child)
               k == PosInLevel(before, index)
           IN  forest = ReplaceAt(before, p,
                            FromList(<<[label |-> P.label,
                                        child |-> FromList(Remove(kids, k))]>>
                                     \o <<kids[k]>>
                                     \o ChainList(P.sibling)))
    /\ op = "promote" => promote(ForestA, 2)[1] = ForestAPromoted2

C7_Witness ==
    /\ op = "promote"
    /\ ValidIndex(before, index)
    /\ HasParent(before, index)
    /\ SubtreeAt(before, ParentIndex(before, index)).sibling # Empty
    /\ HasNextSibling(before, index)
    /\ ret = index + 1

\* C8: promote on a node X that is a root moves X, with its children, to be
\* the first tree of the forest: the first root of the result is X, the
\* other roots keep their relative order, the returned index is 0, and when
\* X was the first root already the forest is returned unchanged.
C8_PromoteRoot ==
    (op = "promote" /\ ValidIndex(before, index) /\ ~HasParent(before, index))
        => LET roots == ChainList(before)
               k == PosInLevel(before, index)
           IN  /\ forest = FromList(<<roots[k]>> \o Remove(roots, k))
               /\ ret = 0
               /\ k = 1 => forest = before

C8_Witness ==
    /\ op = "promote"
    /\ ValidIndex(before, index)
    /\ ~HasParent(before, index)
    /\ PosInLevel(before, index) = 3
    /\ SubtreeAt(before, index).child # Empty
    /\ forest # before

\* C9: demote on a node X that has a previous sibling Q at its level makes
\* X, with its own children, the last child of Q, after all of Q's existing
\* children; X's former following siblings become Q's immediate following
\* siblings.
C9_DemoteUnderPrevious ==
    (op = "demote" /\ ValidIndex(before, index) /\ HasPrevSibling(before, index))
        => LET level == Level(before, index)
               k == PosInLevel(before, index)
               Q == level[k - 1]
               newQ == [label |-> Q.label,
                        child |-> FromList(ChainList(Q.child) \o <<level[k]>>)]
           IN  forest = ReplaceAt(before, LevelStart(before, index),
                            FromList(SubSeq(level, 1, k - 2) \o <<newQ>>
                                     \o SubSeq(level, k + 1, Len(level))))

C9_Witness ==
    /\ op = "demote"
    /\ ValidIndex(before, index)
    /\ HasPrevSibling(before, index)
    /\ HasNextSibling(before, index)
    /\ Level(before, index)[PosInLevel(before, index) - 1].child # Empty

\* C10: at a valid index, move_forward on a node without a next sibling,
\* move_backward on a node without a previous sibling at its level, and
\* demote on the first child / first root of its level each return the
\* forest unchanged together with the same index.
C10_NoOps ==
    (/\ ValidIndex(before, index)
     /\ \/ op = "move_forward" /\ ~HasNextSibling(before, index)
        \/ op = "move_backward" /\ ~HasPrevSibling(before, index)
        \/ op = "demote" /\ ~HasPrevSibling(before, index))
        => forest = before /\ ret = index

C10_Witness ==
    /\ op = "demote"
    /\ ValidIndex(before, index)
    /\ ~HasPrevSibling(before, index)
    /\ HasParent(before, index)
    /\ HasNextSibling(before, index)
    /\ SubtreeAt(before, index).child # Empty

----------------------------------------------------------------------------
\* The labels in pre-order.
PreOrderLabels(node) ==
    [k \in 1..Len(PreOrder(node)) |-> PreOrder(node)[k].label]

\* The forest 0, 2, 3, 4.
ForestADeleted1 == Leaf("0", Leaf("2", Leaf("3", Leaf("4", Empty))))

\* C11: delete at a valid index i returns a forest of size F.size() - 1; the
\* labels at the indices below i are unchanged; from position i on, the
\* pre-order sequence of the result is that of the deleted node's child
\* subtree immediately followed by that of its sibling chain; the deleted
\* node's children take its place in its sibling chain.  Deleting "1" from
\* 0, 1[2, 3], 4 gives 0, 2, 3, 4.
C11_DeleteConcatsOrphans ==
    /\ (op = "delete" /\ ValidIndex(before, index))
        => LET X == SubtreeAt(before, index)
               orphans == PreOrderLabels(X.child) \o PreOrderLabels(X.sibling)
               level == Level(before, index)
               k == PosInLevel(before, index)
           IN  /\ size(forest) = size(before) - 1
               /\ NodeCount(forest) = NodeCount(before) - 1
               /\ SubSeq(PreOrderLabels(forest), 1, index)
                      = SubSeq(PreOrderLabels(before), 1, index)
               /\ SubSeq(PreOrderLabels(forest), index + 1, index + Len(orphans))
                      = orphans
               /\ forest = ReplaceAt(before, LevelStart(before, index),
                               FromList(SubSeq(level, 1, k - 1)
                                        \o ChainList(X.child)
                                        \o SubSeq(level, k + 1, Len(level))))
    /\ op = "delete" => delete(ForestA, 1) = ForestADeleted1

C11_Witness ==
    /\ op = "delete"
    /\ ValidIndex(before, index)
    /\ index > 0
    /\ SubtreeAt(before, index).child # Empty
    /\ SubtreeAt(before, index).sibling # Empty
    /\ PreOrderLabels(SubtreeAt(before, index).child)
           # PreOrderLabels(SubtreeAt(before, index).sibling)

----------------------------------------------------------------------------
\* C12: iter() yields exactly F.size() items, and for every i < F.size()
\* find_label(i) is the label of the i-th item (from 0); both follow the
\* order self, child subtree, sibling chain.
C12_IterAgreesWithIndex ==
    op = "iter"
        => /\ Len(items) = size(forest)
           /\ \A i \in 0..(size(forest) - 1) :
                  find_label(forest, i) = items[i + 1].label
           /\ [k \in 1..Len(items) |-> items[k].label] = PreOrderLabels(forest)

C12_Witness ==
    /\ op = "iter"
    /\ Len(items) = MaxSize
    /\ forest.child # Empty
    /\ forest.sibling # Empty
    /\ items[2].label # items[3].label

\* C13: for every item iter() yields, the role is Root exactly when the node
\* is a top-level tree, Child exactly when it is the first child of its
\* parent, Sibling exactly when it is a later child; is_last is true exactly
\* when the node's sibling link is Empty.
C13_PositionTags ==
    (op = "iter" /\ Len(items) = NodeCount(forest))
        => \A i \in 0..(Len(items) - 1) :
               LET pos == items[i + 1].pos
               IN  /\ pos.node_type = "Root" <=> ~HasParent(forest, i)
                   /\ pos.node_type = "Child"
                          <=> (HasParent(forest, i) /\ PosInLevel(forest, i) = 1)
                   /\ pos.node_type = "Sibling"
                          <=> (HasParent(forest, i) /\ PosInLevel(forest, i) > 1)
                   /\ pos.is_last <=> (SubtreeAt(forest, i).sibling = Empty)

C13_Witness ==
    /\ op = "iter"
    /\ Len(items) = MaxSize
    /\ \E i, j, k \in 1..Len(items) :
           /\ items[i].pos.node_type = "Root" /\ ~items[i].pos.is_last
           /\ items[j].pos.node_type = "Child" /\ ~items[j].pos.is_last
           /\ items[k].pos.node_type = "Sibling" /\ items[k].pos.is_last

----------------------------------------------------------------------------
ZipperOps == IndexedOps \cup {"set_label", "delete", "focus_restore"}

\* C14: for every forest F, the empty one included, and every index
\* i >= F.size(), focus_node(F, i) yields a zipper whose focus is Empty and
\* whose restore equals F, and set_label, delete, move_forward,
\* move_backward, promote and demote with such an index return F.
C14_OutOfRangeIsNoOp ==
    (op \in ZipperOps /\ index >= NodeCount(before))
        => /\ zipper.focus = Empty
           /\ restore(zipper) = before
           /\ forest = before

C14_Witness ==
    /\ op = "move_backward"
    /\ index > NodeCount(before)
    /\ before # Empty
    /\ before.child # Empty
    /\ zipper.prev.kind = "Sibling"

\* C15: for a valid index i whose node has a next sibling B, the index
\* move_forward returns is i + 1 + size(B's child subtree).
C15_MoveForwardIndex ==
    (op = "move_forward" /\ ValidIndex(before, index)
                         /\ HasNextSibling(before, index))
        => ret = index + 1
                 + NodeCount(Level(before, index)[PosInLevel(before, index) + 1].child)

C15_Witness ==
    /\ op = "move_forward"
    /\ ValidIndex(before, index)
    /\ index > 0
    /\ HasNextSibling(before, index)
    /\ Level(before, index)[PosInLevel(before, index) + 1].child # Empty
    /\ ret = index + 2

\* C16: when the node at a valid index i has a previous sibling and
\* demote(F, i) returned (F1, j), promote(F1, j) returns F and i.  The
\* converse fails: on 0, 1[2, 3], 4 promote on "2" followed by demote gives
\* 0, 1[3, 2], 4.
C16_DemoteThenPromote ==
    /\ (op = "demote" /\ ValidIndex(before, index) /\ HasPrevSibling(before, index))
        => promote(forest, ret) = <<before, index>>
    /\ op = "demote"
        => LET r == promote(ForestA, 2)
           IN  demote(r[1], r[2])[1] # ForestA

C16_Witness ==
    /\ op = "demote"
    /\ ValidIndex(before, index)
    /\ HasPrevSibling(before, index)
    /\ HasNextSibling(before, index)
    /\ Level(before, index)[PosInLevel(before, index) - 1].child # Empty
    /\ forest # before

----------------------------------------------------------------------------
(* The session of update.rs: one action per Message handled by update.     *)
(* handle_event (message.rs) gives each mode its own messages, carrying    *)
(* the mode's own index or input state.  Load, Save and Compare modes hold *)
(* no index and are left out.                                              *)

\* The keys a Select-mode Append can carry.
Keys == {DigitChars[d] : d \in 1..10} \cup {"x"}

\* The text typed into an input.
InputTexts == {"a"}

ModeOnly(new_mode) ==
    /\ mode' = new_mode
    /\ UNCHANGED <<forest, before, op, index, text, ret, zipper, items>>

\* update_normal: NormalMsg::StartInput
NormalStartInput ==
    /\ mode.kind = "Normal"
    /\ ModeOnly(Mode_Input(InputState_new_add))

\* update_normal: NormalMsg::StartSelect
NormalStartSelect ==
    /\ mode.kind = "Normal"
    /\ ModeOnly(IF size(forest) > 0 THEN Mode_Select(0) ELSE Mode_Normal)

\* update_input: InputMsg::Append(c)
InputAppend == \E c \in InputTexts :
    /\ mode.kind = "Input"
    /\ ModeOnly(Mode_Input(InputState_append(mode.state, c)))

\* update_input: InputMsg::PopChar
InputPopChar ==
    /\ mode.kind = "Input"
    /\ ModeOnly(Mode_Input(InputState_pop(mode.state)))

\* update_input: InputMsg::Submit
InputSubmit ==
    /\ mode.kind = "Input"
    /\ IF InputState_is_valid(mode.state)
       THEN IF mode.state.action.kind = "Add"
            THEN /\ size(forest) < MaxHeap
                 /\ Returned("prepend", NoIndex, mode.state.input,
                             SessionState_add(forest, mode.state.input))
                 /\ mode' = Mode_Normal
            ELSE /\ Returned("set_label", mode.state.action.index,
                             mode.state.input,
                             SessionState_edit(forest, mode.state.action.index,
                                               mode.state.input))
                 /\ mode' = Mode_Normal
       ELSE ModeOnly(mode)

\* update_select: SelectMsg::Append(c)
SelectAppend == \E c \in Keys :
    /\ mode.kind = "Select"
    /\ ModeOnly(Mode_Select(append_index(mode.index, c, size(forest))))

\* update_select: SelectMsg::Decrement
SelectDecrement ==
    /\ mode.kind = "Select"
    /\ ModeOnly(IF mode.index > 0 THEN Mode_Select(mode.index - 1)
                                  ELSE Mode_Select(mode.index))

\* update_select: SelectMsg::Increment
SelectIncrement ==
    /\ mode.kind = "Select"
    /\ ModeOnly(IF mode.index + 1 < size(forest) THEN Mode_Select(mode.index + 1)
                                                 ELSE Mode_Select(mode.index))

\* update_select: SelectMsg::Confirm
SelectConfirm ==
    /\ mode.kind = "Select"
    /\ ModeOnly(Mode_Selected(mode.index))

\* update_selected: SelectedMsg::Edit
SelectedEdit ==
    /\ mode.kind = "Selected"
    /\ ModeOnly(Mode_Input(InputState_new_edit(label_at(forest, mode.index),
                                               mode.index)))

\* update_selected: SelectedMsg::Delete
SelectedDelete ==
    /\ mode.kind = "Selected"
    /\ Returned("delete", mode.index, "", SessionState_delete(forest, mode.index))
    /\ mode' = Mode_Normal

\* update: Message::Continue(Mode::Normal), the Esc key of every other mode
Cancel ==
    /\ mode.kind # "Normal"
    /\ ModeOnly(Mode_Normal)

NextSession ==
    \/ NormalStartInput
    \/ NormalStartSelect
    \/ InputAppend
    \/ InputPopChar
    \/ InputSubmit
    \/ SelectAppend
    \/ SelectDecrement
    \/ SelectIncrement
    \/ SelectConfirm
    \/ SelectedEdit
    \/ SelectedDelete
    \/ Cancel

SpecSession == Init /\ [][NextSession]_vars

\* C17: Select mode is entered, at index 0, only when the forest is not
\* empty; after any sequence of Select-mode Append, Decrement and Increment
\* messages the selected index is below the forest size; so the index that
\* Confirm hands to Selected mode, and that Edit and Delete hand to the
\* core, is a valid index.
C17_SelectionIndexValid ==
    /\ mode.kind \in {"Select", "Selected"} => mode.index < size(forest)
    /\ (mode.kind = "Input" /\ mode.state.action.kind = "Edit")
           => mode.state.action.index < size(forest)
    /\ op \in {"set_label", "delete"} => ValidIndex(before, index)

C17_Witness ==
    /\ mode.kind = "Selected"
    /\ mode.index >= 10
    /\ op = "set_label"
    /\ index > 0

====
